---- MODULE Spec2Model ----
(***************************************************************************)
(* Model of scripts/score_applications.py: the three append-only tables    *)
(* (applications, outreach_events, status_history), the two write          *)
(* functions, the per-application metric helpers, the three metric views   *)
(* and the state classifier.                                               *)
(*                                                                         *)
(* Time is counted in whole seconds since an arbitrary epoch.  The tables  *)
(* hold second-resolution UTC timestamps; datetime.now() has a sub-second  *)
(* part, which cannot change timedelta.days against whole-second operands, *)
(* so the clock is kept in seconds too.                                    *)
(***************************************************************************)
EXTENDS Integers, Sequences, FiniteSets, TLC

VARIABLES applications, outreach_events, status_history, now, tie_rank, last

vars == <<applications, outreach_events, status_history, now, tie_rank, last>>

store == <<applications, outreach_events, status_history>>

-----------------------------------------------------------------------------
(* Bounds of the model *)

MaxApps == 2
MaxEvents == 2
ViewApps == 1
ViewEvents == 1
PortfolioApps == 10

(* Program constants *)

IDLE_DAYS_THRESHOLD == 7
MIN_CHANNEL_SAMPLE_SIZE == 5
HIGH_IDLE_RATE_THRESHOLD == [num |-> 30, den |-> 100]
LOW_FOLLOW_UP_RATE_THRESHOLD == [num |-> 50, den |-> 100]
SecondsPerDay == 86400

(* Inputs *)

AppIds == 1..MaxApps
Companies == {"OpenAI"}
Roles == {"Research Intern"}
Channels == {"LinkedIn", "Email"}
OutreachTypes == {"initial", "follow_up"}
Statuses == {"closed", "interview"}
Instants == {0, 8 * SecondsPerDay - 1, 8 * SecondsPerDay}
TieRanks == 1..MaxEvents

(* Python's None and a present value *)

None == <<>>
Some(v) == <<v>>

-----------------------------------------------------------------------------
(* Helpers over tables *)

SetMax(S) == CHOOSE x \in S : \A y \in S : y <= x
SetMin(S) == CHOOSE x \in S : \A y \in S : x <= y

Count(tbl, a) == Cardinality({i \in DOMAIN tbl : tbl[i].application_id = a})

RECURSIVE GCD(_, _)
GCD(a, b) == IF b = 0 THEN a ELSE GCD(b, a % b)

(* Python's true division n / d of two non-negative ints, kept exact as a  *)
(* reduced fraction; den = 0 stands for the ZeroDivisionError.             *)
TrueDiv(n, d) ==
    IF d = 0 THEN [num |-> n, den |-> 0]
    ELSE LET g == GCD(n, d) IN [num |-> n \div g, den |-> d \div g]

(* r >= t *)
RatioGE(r, t) == r.num * t.den >= t.num * r.den

(* float comparisons r > t and r < t on exact fractions (den > 0) *)
RatioGT(r, t) == r.num * t.den > t.num * r.den
RatioLT(r, t) == r.num * t.den < t.num * r.den

(* lastrowid + 1 of the applications table (INTEGER PRIMARY KEY) *)
NextAppId == Len(applications) + 1

ExistingIds == {applications[i].application_id : i \in DOMAIN applications}

(* CURRENT_TIMESTAMP default of the timestamp columns *)
CURRENT_TIMESTAMP == now

-----------------------------------------------------------------------------
(* Metric helpers *)

(* the union without its created_at arm *)
ActionTimes_events_only(application_id) ==
    {status_history[i].timestamp : i \in
        {j \in DOMAIN status_history : status_history[j].application_id = application_id}}
    \cup
    {outreach_events[i].timestamp : i \in
        {j \in DOMAIN outreach_events : outreach_events[j].application_id = application_id}}

ActionTimes(application_id) ==
    {status_history[i].timestamp : i \in
        {j \in DOMAIN status_history : status_history[j].application_id = application_id}}
    \cup
    {outreach_events[i].timestamp : i \in
        {j \in DOMAIN outreach_events : outreach_events[j].application_id = application_id}}
    \cup
    {applications[i].created_at : i \in
        {j \in DOMAIN applications : applications[j].application_id = application_id}}

(* the age with timedelta.seconds read for timedelta.days *)
days_since_last_action_seconds(application_id) ==
    LET result == ActionTimes(application_id) IN
    IF result = {} THEN None
    ELSE Some((now - SetMax(result)) % SecondsPerDay)

days_since_last_action(application_id) ==
    LET result == ActionTimes(application_id) IN
    IF result = {} THEN None
    ELSE Some((now - SetMax(result)) \div SecondsPerDay)

(* the count without its WHERE clause *)
total_outreach_count_all_rows(application_id) == Len(outreach_events)

total_outreach_count(application_id) == Count(outreach_events, application_id)

follow_up_count(application_id) ==
    Cardinality({i \in DOMAIN outreach_events :
        /\ outreach_events[i].application_id = application_id
        /\ outreach_events[i].outreach_type = "follow_up"})

has_follow_up(application_id) == follow_up_count(application_id) >= 1

status_change_count(application_id) == Count(status_history, application_id)

total_action_count(application_id) ==
    total_outreach_count(application_id) + status_change_count(application_id)

effort_score_raw(application_id) == total_action_count(application_id)

(* rowids of the status rows ORDER BY timestamp DESC can put first *)
TopStatusRows(application_id) ==
    LET mine == {i \in DOMAIN status_history :
                    status_history[i].application_id = application_id}
    IN {i \in mine : \A j \in mine :
            status_history[j].timestamp <= status_history[i].timestamp}

(* the k-th smallest element of a non-empty set of rowids, k counted modulo *)
(* its size                                                                *)
Pick(S, k) ==
    LET n == Cardinality(S)
        r == ((k - 1) % n) + 1
    IN CHOOSE i \in S : Cardinality({j \in S : j <= i}) = r

(* SQLite leaves the order of rows with equal sort keys undefined; rank    *)
(* says which of the tied rows LIMIT 1 keeps.                              *)
current_status_ranked(application_id, rank) ==
    LET top == TopStatusRows(application_id) IN
    IF top = {} THEN "open"
    ELSE status_history[Pick(top, rank)].status

current_status(application_id) == current_status_ranked(application_id, tie_rank)

-----------------------------------------------------------------------------
(* Application metrics view *)

application_metrics_row(app_id) ==
    LET total_outreach == total_outreach_count(app_id)
        follow_ups == follow_up_count(app_id)
        days_idle == days_since_last_action(app_id)
    IN [application_id |-> app_id,
        current_status |-> current_status(app_id),
        days_since_last_action |-> days_idle,
        total_outreach_count |-> total_outreach,
        follow_up_count |-> follow_ups,
        has_follow_up |-> follow_ups >= 1,
        total_action_count |-> total_action_count(app_id),
        effort_score_raw |-> effort_score_raw(app_id),
        is_idle_application |->
            (days_idle # None /\ days_idle[1] > IDLE_DAYS_THRESHOLD),
        has_zero_outreach |-> total_outreach = 0,
        has_no_follow_up |-> (total_outreach >= 1 /\ follow_ups = 0)]

application_metrics_view ==
    [i \in DOMAIN applications |->
        application_metrics_row(applications[i].application_id)]

(* Channel metrics view: one row per distinct channel, in order of first   *)
(* appearance in outreach_events                                           *)

channel_metrics_row(ch) ==
    LET rows == {i \in DOMAIN outreach_events : outreach_events[i].channel = ch}
        outreach_count == Cardinality(rows)
        app_coverage == Cardinality({outreach_events[i].application_id : i \in rows})
    IN [channel_name |-> ch,
        outreach_count_by_channel |-> outreach_count,
        application_coverage_by_channel |-> app_coverage,
        response_count_by_channel |-> 0,
        response_rate_by_channel |-> None,
        median_response_time_by_channel |-> None,
        is_low_sample_channel |-> outreach_count < MIN_CHANNEL_SAMPLE_SIZE]

channel_metrics_view ==
    LET first == {i \in DOMAIN outreach_events : \A j \in 1..(i - 1) :
                    outreach_events[j].channel # outreach_events[i].channel}
    IN [k \in 1..Cardinality(first) |->
            channel_metrics_row(outreach_events[Pick(first, k)].channel)]

(* Portfolio metrics view *)

(* the week count with floor for ceiling *)
weeks_active_of_floor(min_ts, max_ts) ==
    LET elapsed == (max_ts - min_ts) \div SecondsPerDay
        days == IF elapsed > 1 THEN elapsed ELSE 1
        weeks == days \div 7
    IN IF weeks > 1 THEN weeks ELSE 1

weeks_active_of(min_ts, max_ts) ==
    LET elapsed == (max_ts - min_ts) \div SecondsPerDay
        days == IF elapsed > 1 THEN elapsed ELSE 1
        weeks == (days + 6) \div 7
    IN IF weeks > 1 THEN weeks ELSE 1

(* the summary of a portfolio of at least one application *)
portfolio_row(app_rows) ==
    LET applications_total == Len(app_rows)
        apps_with_follow_up ==
            Cardinality({i \in DOMAIN app_rows : app_rows[i].has_follow_up})
        follow_up_rate == TrueDiv(apps_with_follow_up, applications_total)
        apps_zero_outreach ==
            Cardinality({i \in DOMAIN app_rows : app_rows[i].total_outreach_count = 0})
        zero_outreach_rate == TrueDiv(apps_zero_outreach, applications_total)
        apps_idle ==
            Cardinality({i \in DOMAIN app_rows : app_rows[i].is_idle_application})
        idle_application_rate == TrueDiv(apps_idle, applications_total)
        created == {applications[i].created_at : i \in DOMAIN applications}
    IN [applications_total |-> applications_total,
        applications_per_week |->
            IF created = {} THEN None
            ELSE Some(TrueDiv(applications_total,
                              weeks_active_of(SetMin(created), SetMax(created)))),
        follow_up_rate |-> Some(follow_up_rate),
        zero_outreach_rate |-> Some(zero_outreach_rate),
        idle_application_rate |-> Some(idle_application_rate),
        high_idle_portfolio |->
            Some(RatioGT(idle_application_rate, HIGH_IDLE_RATE_THRESHOLD)),
        low_follow_up_portfolio |->
            Some(RatioLT(follow_up_rate, LOW_FOLLOW_UP_RATE_THRESHOLD))]

portfolio_empty_row ==
    [applications_total |-> 0,
     applications_per_week |-> None,
     follow_up_rate |-> None,
     zero_outreach_rate |-> None,
     idle_application_rate |-> None,
     high_idle_portfolio |-> None,
     low_follow_up_portfolio |-> None]

(* the view without its guard against an empty applications table *)
portfolio_metrics_view_unguarded == portfolio_row(application_metrics_view)

portfolio_metrics_view ==
    LET app_rows == application_metrics_view IN
    IF Len(app_rows) = 0 THEN portfolio_empty_row ELSE portfolio_row(app_rows)

(* the classifier with the zero-outreach test ahead of the closed test *)
application_state_unengaged_first(metrics_row) ==
    IF metrics_row.total_outreach_count = 0 THEN "unengaged"
    ELSE IF metrics_row.current_status = "closed" THEN "closed"
    ELSE IF metrics_row.days_since_last_action = None THEN "TypeError"
    ELSE IF metrics_row.days_since_last_action[1] > IDLE_DAYS_THRESHOLD
         THEN "engaged_idle"
    ELSE "active"

(* the classifier with the idle test ahead of the zero-outreach test *)
application_state_idle_first(metrics_row) ==
    IF metrics_row.current_status = "closed" THEN "closed"
    ELSE IF metrics_row.days_since_last_action = None THEN "TypeError"
    ELSE IF metrics_row.days_since_last_action[1] > IDLE_DAYS_THRESHOLD
         THEN "engaged_idle"
    ELSE IF metrics_row.total_outreach_count = 0 THEN "unengaged"
    ELSE "active"

(* the classifier with >= for > in the idle test *)
application_state_idle_at_threshold(metrics_row) ==
    IF metrics_row.current_status = "closed" THEN "closed"
    ELSE IF metrics_row.total_outreach_count = 0 THEN "unengaged"
    ELSE IF metrics_row.days_since_last_action = None THEN "TypeError"
    ELSE IF metrics_row.days_since_last_action[1] >= IDLE_DAYS_THRESHOLD
         THEN "engaged_idle"
    ELSE "active"

(* State classifier; "TypeError" is the exception None > 7 raises *)

application_state(metrics_row) ==
    IF metrics_row.current_status = "closed" THEN "closed"
    ELSE IF metrics_row.total_outreach_count = 0 THEN "unengaged"
    ELSE IF metrics_row.days_since_last_action = None THEN "TypeError"
    ELSE IF metrics_row.days_since_last_action[1] > IDLE_DAYS_THRESHOLD
         THEN "engaged_idle"
    ELSE "active"

(* rows with their label; an exception raised by the classifier leaves the *)
(* caller without rows                                                     *)
application_state_view ==
    LET rows == application_metrics_view
        raised == \E i \in DOMAIN rows : application_state(rows[i]) = "TypeError"
    IN [raised |-> raised,
        rows |-> IF raised THEN <<>>
                 ELSE [i \in DOMAIN rows |->
                        [metrics |-> rows[i],
                         application_state |-> application_state(rows[i])]]]

-----------------------------------------------------------------------------
(* Operations *)

add_application(company, role) ==
    /\ applications' = Append(applications,
            [application_id |-> NextAppId, company |-> company, role |-> role,
             created_at |-> CURRENT_TIMESTAMP])
    /\ UNCHANGED <<outreach_events, status_history, now, tie_rank>>

add_outreach(application_id, channel, outreach_type) ==
    /\ outreach_events' = Append(outreach_events,
            [application_id |-> application_id, channel |-> channel,
             outreach_type |-> outreach_type, timestamp |-> CURRENT_TIMESTAMP])
    /\ UNCHANGED <<applications, status_history, now, tie_rank>>

(* A status row bears the present time or, entered late, the time its      *)
(* application was filed                                                   *)
StatusTimes(application_id) ==
    {now} \cup {applications[i].created_at : i \in
        {j \in DOMAIN applications : applications[j].application_id = application_id}}

add_status(application_id, status, timestamp) ==
    /\ status_history' = Append(status_history,
            [application_id |-> application_id, status |-> status,
             timestamp |-> timestamp])
    /\ UNCHANGED <<applications, outreach_events, now, tie_rank>>

ViewNames == {"application_metrics_view", "application_state_view",
              "channel_metrics_view", "portfolio_metrics_view"}

ViewOutput(view) ==
    CASE view = "application_metrics_view" -> application_metrics_view
      [] view = "application_state_view" -> <<application_state_view>>
      [] view = "channel_metrics_view" -> channel_metrics_view
      [] view = "portfolio_metrics_view" -> <<portfolio_metrics_view>>

(* last: the view called most recently since the last write, what it      *)
(* returned and when, and when the call before it was if that was a call   *)
(* of the same view                                                        *)
NoCall == [op |-> "none", out |-> None, at |-> 0, before |-> None]

CallView(view) ==
    /\ last' = [op |-> view, out |-> ViewOutput(view), at |-> now,
                before |-> IF last.op = view THEN Some(last.at) ELSE None]
    /\ UNCHANGED <<applications, outreach_events, status_history, now, tie_rank>>

(* The wall clock moves on *)
Tick(t) ==
    /\ t > now
    /\ now' = t
    /\ UNCHANGED <<applications, outreach_events, status_history, tie_rank, last>>

Events == Len(outreach_events) + Len(status_history)

-----------------------------------------------------------------------------
(* Spec: every interleaving of writes and clock movement on an initially   *)
(* empty database; the views are read off each state.                      *)

Init ==
    /\ applications = <<>>
    /\ outreach_events = <<>>
    /\ status_history = <<>>
    /\ now = 0
    /\ tie_rank \in TieRanks
    /\ last = NoCall

DoAddApplication ==
    /\ Len(applications) < MaxApps
    /\ \E c \in Companies, r \in Roles : add_application(c, r)
    /\ UNCHANGED last

DoAddOutreach ==
    /\ Events < MaxEvents
    /\ \E a \in AppIds, ty \in OutreachTypes : add_outreach(a, "LinkedIn", ty)
    /\ UNCHANGED last

DoAddStatus ==
    /\ Events < MaxEvents
    /\ \E a \in ExistingIds, st \in Statuses : \E ts \in StatusTimes(a) : add_status(a, st, ts)
    /\ UNCHANGED last

DoTick == \E t \in Instants : Tick(t)

Next ==
    \/ DoAddApplication
    \/ DoAddOutreach
    \/ DoAddStatus
    \/ DoTick

Spec == Init /\ [][Next]_vars

-----------------------------------------------------------------------------
(* SpecViews: a caller reading the views between writes *)

ViewAddApplication ==
    /\ Len(applications) < ViewApps
    /\ \E c \in Companies, r \in Roles : add_application(c, r)
    /\ last' = NoCall

ViewAddOutreach ==
    /\ Events < ViewEvents
    /\ \E a \in 1..ViewApps, ch \in Channels, ty \in OutreachTypes :
            add_outreach(a, ch, ty)
    /\ last' = NoCall

ViewAddStatus ==
    /\ Events < ViewEvents
    /\ \E a \in ExistingIds, st \in Statuses : \E ts \in StatusTimes(a) : add_status(a, st, ts)
    /\ last' = NoCall

ViewCall == \E v \in ViewNames : CallView(v)

NextViews ==
    \/ ViewAddApplication
    \/ ViewAddOutreach
    \/ ViewAddStatus
    \/ ViewCall
    \/ DoTick

SpecViews == Init /\ [][NextViews]_vars

-----------------------------------------------------------------------------
(* SpecPortfolio: a long job search; applications are filed one after the  *)
(* other and the newest one may get a follow-up.                           *)

InitPortfolio ==
    /\ applications = <<>>
    /\ outreach_events = <<>>
    /\ status_history = <<>>
    /\ now = 0
    /\ tie_rank = 1
    /\ last = NoCall

PortfolioAddApplication ==
    /\ Len(applications) < PortfolioApps
    /\ \E c \in Companies, r \in Roles : add_application(c, r)
    /\ UNCHANGED last

PortfolioFollowUp ==
    /\ applications # <<>>
    /\ total_outreach_count(Len(applications)) = 0
    /\ add_outreach(Len(applications), "LinkedIn", "follow_up")
    /\ UNCHANGED last

PortfolioTick == Tick(8 * SecondsPerDay)

NextPortfolio ==
    \/ PortfolioAddApplication
    \/ PortfolioFollowUp
    \/ PortfolioTick

SpecPortfolio == InitPortfolio /\ [][NextPortfolio]_vars

-----------------------------------------------------------------------------
(* Auxiliary definitions of the properties *)

(* the four labels of the classifier *)
Labels == {"closed", "unengaged", "engaged_idle", "active"}

(* every timestamp the three tables hold for an application id *)
AllTimesOf(a) ==
    {status_history[i].timestamp : i \in
        {j \in DOMAIN status_history : status_history[j].application_id = a}}
    \cup {outreach_events[i].timestamp : i \in
        {j \in DOMAIN outreach_events : outreach_events[j].application_id = a}}
    \cup {applications[i].created_at : i \in
        {j \in DOMAIN applications : applications[j].application_id = a}}

(* the most recent action of an application *)
LastActionTime(a) == SetMax(AllTimesOf(a))

(* the metrics row of the i-th application *)
RowOf(i) == application_metrics_row(applications[i].application_id)

(* the quotients of a portfolio row *)
RateFields(p) ==
    {p.applications_per_week, p.follow_up_rate, p.zero_outreach_rate,
     p.idle_application_rate}

(* rowids of the status rows of an application *)
StatusRowsOf(a) == {i \in DOMAIN status_history : status_history[i].application_id = a}

(* the created_at values of the applications table *)
CreatedTimes == {applications[i].created_at : i \in DOMAIN applications}

(* whole days between the earliest and latest created_at, at least 1 *)
SpanDays ==
    LET d == (SetMax(CreatedTimes) - SetMin(CreatedTimes)) \div SecondsPerDay
    IN IF d < 1 THEN 1 ELSE d

(* ceil(span / 7) for span >= 1 *)
CeilWeeks(span) == CHOOSE k \in 1..span : 7 * (k - 1) < span /\ span <= 7 * k

(* outreach logged at filing time, no status row and nothing since *)
OnlyOutreachAtCreation(a) ==
    /\ StatusRowsOf(a) = {}
    /\ total_outreach_count(a) >= 1
    /\ \A t \in AllTimesOf(a) : t = LastActionTime(a)

(* a row that reports outreach *)
NotReportedUnengaged(row) ==
    /\ row.total_outreach_count >= 1
    /\ ~row.has_zero_outreach
    /\ application_state(row) # "unengaged"

(* two rows with the same outreach-derived metrics *)
SameOutreachMetrics(row1, row2) ==
    /\ row2.total_outreach_count = row1.total_outreach_count
    /\ row2.follow_up_count = row1.follow_up_count
    /\ row2.has_follow_up = row1.has_follow_up
    /\ row2.has_zero_outreach = row1.has_zero_outreach
    /\ row2.has_no_follow_up = row1.has_no_follow_up

(* the counters of row2 are not below those of row1 and outreach stays *)
CountersGrow(row1, row2) ==
    /\ row2.total_outreach_count >= row1.total_outreach_count
    /\ row2.follow_up_count >= row1.follow_up_count
    /\ row2.total_action_count >= row1.total_action_count
    /\ row1.total_outreach_count >= 1 => NotReportedUnengaged(row2)

(* what a step may do to the rows of the applications that exist *)
C10_Step ==
    \A i \in DOMAIN applications :
        /\ i \in DOMAIN applications'
        /\ applications'[i] = applications[i]
        /\ \A row1 \in {RowOf(i)} : \A row2 \in {RowOf(i)'} :
            /\ CountersGrow(row1, row2)
            /\ (/\ Len(outreach_events') = Len(outreach_events) + 1
                /\ applications[i].application_id
                        # outreach_events'[Len(outreach_events')].application_id)
                    => SameOutreachMetrics(row1, row2)

(* a step that calls the view that was called last, with no write since *)
SecondCall == last.op \in ViewNames /\ last'.op = last.op /\ last' # last

(* every application is as many whole days old at t as at u *)
SameAges(t, u) ==
    \A a \in ExistingIds :
        (t - LastActionTime(a)) \div SecondsPerDay
            = (u - LastActionTime(a)) \div SecondsPerDay

(* applications whose last action lies 8 days or more back *)
IdleApps ==
    {i \in DOMAIN applications :
        now - LastActionTime(applications[i].application_id) >= 8 * SecondsPerDay}

(* applications with at least one follow_up outreach row *)
FollowedUpApps ==
    {i \in DOMAIN applications : \E j \in DOMAIN outreach_events :
        /\ outreach_events[j].application_id = applications[i].application_id
        /\ outreach_events[j].outreach_type = "follow_up"}

-----------------------------------------------------------------------------
(* Properties *)

(* C1: application_state labels every row of the metrics view with exactly *)
(* one of the four labels, by first match in the order closed, unengaged,  *)
(* engaged_idle (more than 7 days since the last action), active; a closed *)
(* application is closed whatever its outreach or idleness, and            *)
(* application_state_view raises nothing on the rows of existing           *)
(* applications.                                                           *)
C1_StatePriority ==
    /\ \A i \in DOMAIN applications :
        \A st \in {application_state(RowOf(i))} :
        LET a == applications[i].application_id
            closed == current_status(a) = "closed"
            zero == total_outreach_count(a) = 0
            idle == now - LastActionTime(a) >= (IDLE_DAYS_THRESHOLD + 1) * SecondsPerDay
        IN /\ st \in Labels
           /\ closed => st = "closed"
           /\ (~closed /\ zero) => st = "unengaged"
           /\ (~closed /\ ~zero /\ idle) => st = "engaged_idle"
           /\ (~closed /\ ~zero /\ ~idle) => st = "active"
    /\ \A view \in {application_state_view} :
        ~view.raised /\ Len(view.rows) = Len(applications)

(* a closed application with no outreach that has been idle for 8 days *)
C1_Witness ==
    \E i \in DOMAIN applications :
        LET r == RowOf(i) IN
        /\ r.current_status = "closed"
        /\ r.total_outreach_count = 0
        /\ r.is_idle_application
        /\ application_state_view.rows[i].application_state = "closed"

(* C2: every row with total_outreach_count = 0 has has_zero_outreach and,  *)
(* unless its current status is closed, the state unengaged, however long  *)
(* ago the application was created.                                        *)
C2_ZeroOutreachUnengaged ==
    \A view \in {application_state_view.rows} :
    \A i \in DOMAIN applications :
        LET a == applications[i].application_id
            v == view[i]
        IN Count(outreach_events, a) = 0 =>
            /\ v.metrics.total_outreach_count = 0
            /\ v.metrics.has_zero_outreach
            /\ (v.metrics.current_status # "closed" => v.application_state = "unengaged")

(* an application without outreach, 8 days after its creation, with a status *)
(* row that is not closed                                                  *)
C2_Witness ==
    \E i \in DOMAIN applications :
        LET v == application_state_view.rows[i] IN
        /\ v.metrics.total_outreach_count = 0
        /\ v.metrics.current_status = "interview"
        /\ v.metrics.days_since_last_action = Some(8)
        /\ v.application_state = "unengaged"

(* C3: for every application in the applications table,                   *)
(* days_since_last_action is present, is at least 0 and is the whole       *)
(* number of days from the latest of its status rows, outreach rows and    *)
(* created_at to now; it is absent only for an id with no application.     *)
C3_DaysPresentNonNegative ==
    /\ \A a \in ExistingIds :
        \A d \in {days_since_last_action(a)} :
        /\ d # None
        /\ d[1] >= 0
        /\ \E t \in AllTimesOf(a) :
            /\ \A u \in AllTimesOf(a) : u <= t
            /\ d[1] * SecondsPerDay <= now - t
            /\ now - t < (d[1] + 1) * SecondsPerDay
    /\ \A a \in AppIds : days_since_last_action(a) = None => a \notin ExistingIds

(* an application with a status row and an outreach row, a second short of *)
(* 8 days after its last action, beside an id without application          *)
C3_Witness ==
    /\ \E a \in ExistingIds :
        /\ status_change_count(a) >= 1
        /\ total_outreach_count(a) >= 1
        /\ now - LastActionTime(a) = 8 * SecondsPerDay - 1
        /\ days_since_last_action(a) = Some(7)
    /\ \E a \in AppIds : a \notin ExistingIds /\ days_since_last_action(a) = None

(* C4: portfolio_metrics_view never divides by zero: on an empty          *)
(* applications table it returns applications_total 0 with every other     *)
(* field null; with at least one application follow_up_rate and            *)
(* zero_outreach_rate are present and lie in [0,1].                        *)
C4_PortfolioNoDivisionByZero ==
    \A p \in {portfolio_metrics_view} :
    /\ \A f \in RateFields(p) : f # None => f[1].den # 0
    /\ applications = <<>> =>
        /\ p.applications_total = 0
        /\ RateFields(p) = {None}
        /\ p.high_idle_portfolio = None
        /\ p.low_follow_up_portfolio = None
    /\ applications # <<>> =>
        /\ p.applications_total = Len(applications)
        /\ \A f \in {p.follow_up_rate, p.zero_outreach_rate} :
            /\ f # None
            /\ f[1].den > 0
            /\ 0 <= f[1].num
            /\ f[1].num <= f[1].den

(* an empty applications table beside a non-empty outreach log *)
C4_WitnessEmpty ==
    /\ applications = <<>>
    /\ outreach_events # <<>>
    /\ portfolio_metrics_view.applications_total = 0
    /\ portfolio_metrics_view.follow_up_rate = None

(* C5: a view called twice without a write in between returns the same   *)
(* result both times.                                                      *)
C5_Idempotent == [][SecondCall => last'.out = last.out]_vars

(* C5 as amended: the same, when no application's whole days since its     *)
(* last action differ between the two calls (as when both read the same    *)
(* clock); channel_metrics_view at any two times; and a view call changes  *)
(* no table.                                                               *)
C5_IdempotentSameAges ==
    [][/\ (SecondCall /\ (last.op = "channel_metrics_view" \/ SameAges(last.at, now)))
            => last'.out = last.out
       /\ (last'.op \in ViewNames /\ last' # last) => store' = store]_vars

(* application_state_view called twice with the clock moved in between,    *)
(* inside the same whole day of the age of an application with outreach    *)
C5_Witness ==
    /\ last.op = "application_state_view"
    /\ last.before # None
    /\ last.before[1] < last.at
    /\ \E a \in ExistingIds : total_outreach_count(a) >= 1
    /\ SameAges(last.before[1], last.at)

(* C6: current_status is the status of the status row with the greatest  *)
(* timestamp of the application, whatever the insertion order, "open"      *)
(* without status rows, and the store contents determine it, also when two *)
(* rows share the greatest timestamp.                                      *)
C6_CurrentStatusDetermined ==
    \A a \in ExistingIds :
        /\ StatusRowsOf(a) = {} => current_status(a) = "open"
        /\ StatusRowsOf(a) # {} =>
            \E i \in StatusRowsOf(a) :
                /\ \A j \in StatusRowsOf(a) :
                    status_history[j].timestamp <= status_history[i].timestamp
                /\ current_status(a) = status_history[i].status
        /\ \A r1, r2 \in TieRanks :
            current_status_ranked(a, r1) = current_status_ranked(a, r2)

(* C7: with at least one application, high_idle_portfolio holds exactly    *)
(* when idle applications / total > 0.30 and low_follow_up_portfolio       *)
(* exactly when applications with a follow-up / total < 0.50, both strict: *)
(* 2 idle in 10, 3 idle in 10 and 1 followed up in 2 set neither flag.     *)
C7_PortfolioFlags ==
    applications # <<>> =>
        LET total == Len(applications)
            idle == Cardinality(IdleApps)
            fu == Cardinality(FollowedUpApps)
            p == portfolio_metrics_view
        IN /\ p.high_idle_portfolio = Some(100 * idle > 30 * total)
           /\ p.low_follow_up_portfolio = Some(100 * fu < 50 * total)
           /\ (total = 10 /\ idle \in {2, 3}) => p.high_idle_portfolio = Some(FALSE)
           /\ 2 * fu = total => p.low_follow_up_portfolio = Some(FALSE)

(* 10 applications, 3 of them idle and 5 followed up: neither flag *)
C7_Witness ==
    /\ Len(applications) = 10
    /\ Cardinality(IdleApps) = 3
    /\ Cardinality(FollowedUpApps) = 5
    /\ portfolio_metrics_view.high_idle_portfolio = Some(FALSE)
    /\ portfolio_metrics_view.low_follow_up_portfolio = Some(FALSE)

(* C8: with at least one application, applications_per_week is the total   *)
(* divided by ceil(span / 7), span the whole days between the earliest and *)
(* the latest created_at and at least 1; the divisor is an integer >= 1    *)
(* (1 up to a span of 7 days, 2 at 8 days), so the value is present and    *)
(* never exceeds the total.                                                *)
C8_ApplicationsPerWeek ==
    applications # <<>> =>
        LET total == Len(applications)
            apw == portfolio_metrics_view.applications_per_week
            w == CeilWeeks(SpanDays)
        IN /\ apw # None
           /\ w >= 1
           /\ (SpanDays <= 7 => w = 1)
           /\ (SpanDays = 8 => w = 2)
           /\ apw[1].den > 0
           /\ apw[1].num * w = total * apw[1].den
           /\ apw[1].num <= total * apw[1].den

(* two applications filed 8 days apart: two weeks, one application a week *)
C8_Witness ==
    /\ Len(applications) = 2
    /\ SetMax(CreatedTimes) - SetMin(CreatedTimes) = 8 * SecondsPerDay
    /\ portfolio_metrics_view.applications_per_week = Some([num |-> 1, den |-> 1])

(* C9: is_idle_application holds exactly when days_since_last_action is    *)
(* present and greater than 7; a row with outreach whose status is not     *)
(* closed is engaged_idle exactly when is_idle_application holds; an       *)
(* application filed at T0 with one outreach at T0 and nothing since is    *)
(* active up to T0 + 7 days and idle, engaged_idle, at T0 + 8 days.        *)
C9_IdleBoundary ==
    \A view \in {application_state_view.rows} :
    \A i \in DOMAIN applications :
        LET a == applications[i].application_id
            v == view[i]
            age == now - LastActionTime(a)
        IN /\ v.metrics.is_idle_application <=>
                (v.metrics.days_since_last_action # None
                    /\ v.metrics.days_since_last_action[1] > IDLE_DAYS_THRESHOLD)
           /\ v.metrics.is_idle_application <=> age >= 8 * SecondsPerDay
           /\ (v.metrics.total_outreach_count >= 1
                    /\ v.metrics.current_status # "closed") =>
                (v.application_state = "engaged_idle" <=> v.metrics.is_idle_application)
           /\ OnlyOutreachAtCreation(a) =>
                /\ age <= 7 * SecondsPerDay =>
                    (~v.metrics.is_idle_application /\ v.application_state = "active")
                /\ age >= 8 * SecondsPerDay =>
                    (v.metrics.is_idle_application
                        /\ v.application_state = "engaged_idle")

(* outreach at filing time and nothing since, read exactly 8 days later *)
C9_WitnessIdle ==
    \E i \in DOMAIN applications :
        LET a == applications[i].application_id IN
        /\ OnlyOutreachAtCreation(a)
        /\ now - LastActionTime(a) = 8 * SecondsPerDay
        /\ application_state_view.rows[i].metrics.is_idle_application
        /\ application_state_view.rows[i].application_state = "engaged_idle"

(* C10: the tables only grow, so for an existing application              *)
(* total_outreach_count, follow_up_count and total_action_count never      *)
(* decrease, an outreach logged for one application leaves the outreach    *)
(* counts of every other application alone, and an application seen with   *)
(* outreach is never again reported with has_zero_outreach or as           *)
(* unengaged.                                                              *)
C10_CountersMonotone == [][C10_Step]_vars

(* one application with an initial outreach and a follow-up beside another *)
(* that has none                                                           *)
C10_Witness ==
    \E a, b \in ExistingIds :
        /\ total_outreach_count(a) = 2
        /\ follow_up_count(a) = 1
        /\ total_outreach_count(b) = 0
        /\ application_metrics_row(b).has_zero_outreach

====
